---- MODULE Spec2Model ----
(***************************************************************************)
(* Model of the pending-payment ledger of pool-payouts-script:             *)
(*   src/payments.py      class Payments (register_payment,                *)
(*                        process_payments)                                *)
(*   src/pool-payouts.py  run_client's payout loop (lines 101-104)         *)
(*                                                                         *)
(* The dict self.payments is a sequence of (address, amount) records in    *)
(* insertion order, because dict.popitem() removes the entry inserted      *)
(* last.  self.lock is an asyncio.Lock: a holder and a FIFO of waiters.    *)
(* Every await of the code is a point where another task may run.          *)
(***************************************************************************)
EXTENDS Integers, Sequences, FiniteSets, TLC

\* ---------------------------------------------------------------- bounds
MaxAmount == 1
MaxRegs == 3
MaxDrains == 2
MaxLogs == 2
MaxStakers == 2
MaxBalance == 2

Addresses == {"A", "B"}
\* kwargs['reward_address'], the sender of every transfer
Sender == "S"
StakerAddresses == Addresses \cup {Sender}
Amounts == 0..MaxAmount
RegTasks == {"r1", "r2"}
Drainer == "d"
Tasks == RegTasks \cup {Drainer}
NoTask == "none"
NoItem == [address |-> "none", amount |-> 0]

VARIABLES
  payments,        \* self.payments, in insertion order
  lock,            \* the task holding self.lock, or NoTask
  waiters,         \* tasks suspended in self.lock.acquire(), FIFO
  pc,              \* position of every task
  args,            \* (address, amount) of each task's register_payment call
  unlocked,        \* what client.is_account_unlocked(sender) answers
  use_stake_txns,  \* the payout mode run_client passes
  cur,             \* (recipient, amount) popped by the drain
  attempts,        \* transfer calls issued by the current process_payments call
  startPending,    \* self.payments when the current drain acquired the lock
  result,          \* how the last process_payments call ended
  running,         \* run_client (the process) is still alive
  regLog,          \* completed registrations of entries not removed since
  removed,         \* addresses some drain has popped
  regSinceRelease, \* a registration took the lock since a drain released it
  nRegs,           \* register_payment calls issued
  nDrains,         \* process_payments calls issued
  owed,            \* per address: amounts registered minus amounts sent
  h,               \* the running process_logs call
  pool_fee,        \* kwargs['pool_fee'], as the fraction given on the
                   \* command line
  nLogs,           \* process_logs calls issued
  shares           \* the amounts one payout-reward inherent yields

\* the variables of the reward handler and of the share computation
hvars == <<h, pool_fee, nLogs, shares>>

vars == <<payments, lock, waiters, pc, args, unlocked, use_stake_txns, cur,
          attempts, startPending, result, running, regLog, removed,
          regSinceRelease, nRegs, nDrains, owed, h, pool_fee, nLogs,
          shares>>

\* ------------------------------------------------------ the dict (pure)
HasKey(pay, address) == \E i \in 1..Len(pay) : pay[i].address = address

Keys(pay) == {pay[i].address : i \in 1..Len(pay)}

Get(pay, address) ==
  LET i == CHOOSE j \in 1..Len(pay) : pay[j].address = address
  IN pay[i].amount

\* payments.py 16-19 with "+=" replaced by "=": a registration overwrites
AddPaymentOverwrite(pay, address, amount) ==
  IF HasKey(pay, address)
  THEN [i \in 1..Len(pay) |->
          IF pay[i].address = address
          THEN [pay[i] EXCEPT !.amount = amount] ELSE pay[i]]
  ELSE Append(pay, [address |-> address, amount |-> amount])

\* payments.py 16-19: add to the entry, or create it
AddPayment(pay, address, amount) ==
  IF HasKey(pay, address)
  THEN [i \in 1..Len(pay) |->
          IF pay[i].address = address
          THEN [pay[i] EXCEPT !.amount = @ + amount] ELSE pay[i]]
  ELSE Append(pay, [address |-> address, amount |-> amount])

\* dict.popitem(): the pair inserted last
PopItem(pay) == pay[Len(pay)]

\* the entry is read but left in the dict (a peek instead of popitem)
PopRestKeepsEntry(pay) == pay

\* dict.popitem(): the dict without the pair inserted last
PopRest(pay) == SubSeq(pay, 1, Len(pay) - 1)

\* ------------------------------------- Python int and float (binary64)
\* A Python int that may exceed the range of the model checker's integers
\* is a sequence of limbs in base 2^15, least significant first, without
\* leading zero limbs; 0 is <<>>.
Base == 32768

RECURSIVE BigNorm(_)
BigNorm(a) ==
  IF a = <<>> THEN a
  ELSE IF a[Len(a)] = 0 THEN BigNorm(SubSeq(a, 1, Len(a) - 1)) ELSE a

RECURSIVE BigFromInt(_)
BigFromInt(n) ==
  IF n = 0 THEN <<>> ELSE <<n % Base>> \o BigFromInt(n \div Base)

RECURSIVE BigToInt(_)
BigToInt(a) ==
  IF a = <<>> THEN 0 ELSE a[1] + Base * BigToInt(Tail(a))

RECURSIVE BigAddC(_, _, _)
BigAddC(a, b, carry) ==
  IF a = <<>> /\ b = <<>>
  THEN (IF carry = 0 THEN <<>> ELSE <<carry>>)
  ELSE LET x == IF a = <<>> THEN 0 ELSE a[1]
           y == IF b = <<>> THEN 0 ELSE b[1]
           s == x + y + carry
       IN <<s % Base>> \o
          BigAddC(IF a = <<>> THEN a ELSE Tail(a),
                  IF b = <<>> THEN b ELSE Tail(b), s \div Base)

BigAdd(a, b) == BigAddC(a, b, 0)

RECURSIVE BigSubB(_, _, _)
\* a - b - borrow, for a >= b + borrow
BigSubB(a, b, borrow) ==
  IF a = <<>> THEN <<>>
  ELSE LET y == IF b = <<>> THEN 0 ELSE b[1]
           d == a[1] - y - borrow
       IN <<IF d < 0 THEN d + Base ELSE d>> \o
          BigSubB(Tail(a), IF b = <<>> THEN b ELSE Tail(b),
                  IF d < 0 THEN 1 ELSE 0)

BigSub(a, b) == BigNorm(BigSubB(a, b, 0))

RECURSIVE BigCmp(_, _)
\* -1, 0 or 1 as a < b, a = b or a > b
BigCmp(a, b) ==
  IF Len(a) # Len(b) THEN (IF Len(a) < Len(b) THEN -1 ELSE 1)
  ELSE IF a = <<>> THEN 0
  ELSE IF a[Len(a)] # b[Len(b)]
       THEN (IF a[Len(a)] < b[Len(b)] THEN -1 ELSE 1)
       ELSE BigCmp(BigNorm(SubSeq(a, 1, Len(a) - 1)),
                   BigNorm(SubSeq(b, 1, Len(b) - 1)))

RECURSIVE BigMulSmallC(_, _, _)
BigMulSmallC(a, k, carry) ==
  IF a = <<>> THEN BigFromInt(carry)
  ELSE LET p == a[1] * k + carry
       IN <<p % Base>> \o BigMulSmallC(Tail(a), k, p \div Base)

\* a * k for 0 <= k < Base
BigMulSmall(a, k) == BigNorm(BigMulSmallC(a, k, 0))

RECURSIVE BigMul(_, _)
BigMul(a, b) ==
  IF a = <<>> \/ b = <<>> THEN <<>>
  ELSE LET rest == BigMul(Tail(a), b)
       IN BigAdd(BigMulSmall(b, a[1]),
                 IF rest = <<>> THEN rest ELSE <<0>> \o rest)

RECURSIVE BigDivSmallR(_, _, _)
\* long division from the most significant limb: quotient limbs (most
\* significant last) and the remainder, for 0 < k < Base
BigDivSmallR(a, k, rest) ==
  IF a = <<>> THEN [q |-> <<>>, r |-> rest]
  ELSE LET top == rest * Base + a[Len(a)]
           low == BigDivSmallR(SubSeq(a, 1, Len(a) - 1), k, top % k)
       IN [q |-> Append(low.q, top \div k), r |-> low.r]

BigDivSmall(a, k) ==
  LET d == BigDivSmallR(a, k, 0) IN [q |-> BigNorm(d.q), r |-> d.r]

RECURSIVE Pow2(_)
Pow2(n) == IF n = 0 THEN 1 ELSE 2 * Pow2(n - 1)

RECURSIVE IntBitLen(_)
IntBitLen(n) == IF n = 0 THEN 0 ELSE 1 + IntBitLen(n \div 2)

BigBitLen(a) ==
  IF a = <<>> THEN 0 ELSE 15 * (Len(a) - 1) + IntBitLen(a[Len(a)])

BigIsOdd(a) == a # <<>> /\ a[1] % 2 = 1

\* a * 2^k
BigShl(a, k) ==
  IF a = <<>> THEN a
  ELSE [i \in 1..(k \div 15) |-> 0] \o BigMulSmall(a, Pow2(k % 15))

\* floor(a / 2^k), and whether a nonzero part was shifted out
BigShr(a, k) ==
  LET n == k \div 15
      dropped == SubSeq(a, 1, IF n < Len(a) THEN n ELSE Len(a))
      kept == SubSeq(a, n + 1, Len(a))
      d == BigDivSmall(kept, Pow2(k % 15))
  IN [q |-> d.q,
      sticky |-> d.r # 0 \/ \E i \in 1..Len(dropped) : dropped[i] # 0]

\* A non-negative float is [m, e]: the value m * 2^e with a mantissa m of
\* exactly 53 bits, or m = 0.
FZero == [m |-> <<>>, e |-> 0]

\* n * 2^e (plus a positive fraction of 2^e when sticky) rounded to the
\* nearest float, ties to even
FRound(n, sticky, e) ==
  IF n = <<>> THEN FZero
  ELSE LET len == BigBitLen(n)
       IN IF len <= 53
          THEN [m |-> BigShl(n, 53 - len), e |-> e - (53 - len)]
          ELSE LET s2 == BigShr(n, len - 54)
                   guard == BigIsOdd(s2.q)
                   q == BigShr(s2.q, 1).q
                   st == s2.sticky \/ sticky
                   up == guard /\ (st \/ BigIsOdd(q))
                   m == IF up THEN BigAdd(q, <<1>>) ELSE q
               IN IF BigBitLen(m) = 54
                  THEN [m |-> BigShr(m, 1).q, e |-> e + (len - 53) + 1]
                  ELSE [m |-> m, e |-> e + (len - 53)]

\* float(n) for a Python int n
FFromBig(n) == FRound(n, FALSE, 0)

\* float(a) / float(b) for ints 0 <= a < Base, 0 < b < Base (both exact
\* as floats): the quotient rounded to nearest
FDivSmall(a, b) ==
  LET d == BigDivSmall(BigShl(BigFromInt(a), 75), b)
  IN FRound(d.q, d.r # 0, -75)

\* x * y rounded to nearest
FMul(x, y) == FRound(BigMul(x.m, y.m), FALSE, x.e + y.e)

\* x - y rounded to nearest, for x >= y
FSub(x, y) ==
  IF y.m = <<>> THEN x
  ELSE LET e == IF x.e < y.e THEN x.e ELSE y.e
       IN FRound(BigSub(BigShl(x.m, x.e - e), BigShl(y.m, y.e - e)),
                 FALSE, e)

\* int(x): truncation toward zero
FTrunc(x) ==
  IF x.e >= 0 THEN BigShl(x.m, x.e) ELSE BigShr(x.m, 0 - x.e).q

\* ----------------------------------------------------- asyncio.Lock
\* "async with self.lock" left out: every caller goes straight in
LockNotTaken == TRUE

\* Lock.acquire() returns at once when the lock is free and nobody waits
LockFree == lock = NoTask /\ waiters = <<>>

\* ------------------------------------------------------------------ Init
HandlerIdle ==
  [pc |-> "idle", type |-> "none", expected |-> 0, inherents |-> <<>>,
   value |-> 0, stakers |-> <<>>, amounts |-> <<>>, i |-> 0, rounds |-> 0,
   regs |-> 0]

NoShares == [pc |-> "none", stakers |-> <<>>, value |-> <<>>, amounts |-> <<>>]

InitLedger ==
  /\ payments = <<>>
  /\ lock = NoTask
  /\ waiters = <<>>
  /\ pc = [t \in Tasks |-> "idle"]
  /\ args = [t \in RegTasks |-> NoItem]
  /\ unlocked = TRUE
  /\ cur = NoItem
  /\ attempts = <<>>
  /\ startPending = <<>>
  /\ result = "none"
  /\ running = TRUE
  /\ regLog = <<>>
  /\ removed = {}
  /\ regSinceRelease = FALSE
  /\ nRegs = 0
  /\ nDrains = 0
  /\ owed = [a \in StakerAddresses |-> 0]

\* no process_logs call is running and none will be issued
InitNoHandler ==
  /\ h = HandlerIdle
  /\ pool_fee = [n |-> 0, d |-> 1]
  /\ nLogs = 0
  /\ shares = NoShares

Init ==
  /\ InitLedger
  /\ use_stake_txns \in BOOLEAN
  /\ InitNoHandler

\* ---------------------------------------------------- register_payment
\* payments.py 14-15: the call is issued and reaches "async with self.lock"
RegisterCall(t, address, amount) ==
  /\ running
  /\ UNCHANGED owed
  /\ pc[t] = "idle"
  /\ nRegs < MaxRegs
  /\ nRegs' = nRegs + 1
  /\ args' = [args EXCEPT ![t] = [address |-> address, amount |-> amount]]
  /\ IF LockFree
     THEN /\ lock' = t
          /\ pc' = [pc EXCEPT ![t] = "locked"]
          /\ regSinceRelease' = TRUE
          /\ UNCHANGED waiters
     ELSE /\ waiters' = Append(waiters, t)
          /\ pc' = [pc EXCEPT ![t] = "waiting"]
          /\ UNCHANGED <<lock, regSinceRelease>>
  /\ UNCHANGED <<payments, unlocked, use_stake_txns, cur, attempts,
                 startPending, result, running, regLog, removed, nDrains>>

\* payments.py 16-19, then the lock is released on leaving the block
RegisterBody(t) ==
  /\ running
  /\ UNCHANGED hvars
  /\ pc[t] = "locked"
  /\ payments' = AddPayment(payments, args[t].address, args[t].amount)
  /\ regLog' = Append(regLog, args[t])
  /\ owed' = [owed EXCEPT ![args[t].address] = @ + args[t].amount]
  /\ lock' = NoTask
  /\ pc' = [pc EXCEPT ![t] = "idle"]
  /\ args' = [args EXCEPT ![t] = NoItem]
  /\ UNCHANGED <<waiters, unlocked, use_stake_txns, cur, attempts,
                 startPending, result, running, removed, regSinceRelease,
                 nRegs, nDrains>>

\* asyncio.Lock.release() wakes the first waiter, which then owns the lock
\* (payments.py 15 for a registration, 27 for the drain)
LockWake(t) ==
  /\ running
  /\ UNCHANGED <<hvars, owed>>
  /\ lock = NoTask
  /\ waiters # <<>>
  /\ Head(waiters) = t
  /\ pc[t] = "waiting"
  /\ lock' = t
  /\ waiters' = Tail(waiters)
  /\ pc' = [pc EXCEPT ![t] = IF t = Drainer THEN "loop" ELSE "locked"]
  /\ startPending' = IF t = Drainer THEN payments ELSE startPending
  /\ regSinceRelease' = IF t = Drainer THEN regSinceRelease ELSE TRUE
  /\ UNCHANGED <<payments, args, unlocked, use_stake_txns, cur, attempts,
                 result, running, regLog, removed, nRegs, nDrains>>

\* ---------------------------------------------------- process_payments
\* the check of payments.py 22 left out: the drain always goes on
AccountCheckSkipped == TRUE

\* payments.py 22: the answer of client.is_account_unlocked(sender)
IsAccountUnlocked == unlocked

\* the loop of payments.py 29 stopping one entry early
LoopCondOffByOne(pay) == Len(pay) > 1

\* payments.py 29: the loop condition
LoopCond(pay) == Len(pay) # 0

\* payments.py 21-40: process_payments has no return statement and keeps
\* no list of failures: the value it returns names no failed recipient
ReturnedFailures == {}

\* payments.py 33-40 with the payout mode ignored
TransferAlwaysBasic == "basic"

\* the kind of transfer chosen at payments.py 33-40
TransferKind == IF use_stake_txns THEN "stake" ELSE "basic"

\* pool-payouts.py 102-103: the sleep ends and process_payments is called;
\* payments.py 22: the call awaits client.is_account_unlocked(sender)
ProcessPaymentsCall ==
  /\ running
  /\ UNCHANGED <<hvars, owed>>
  /\ pc[Drainer] = "idle"
  /\ nDrains < MaxDrains
  /\ nDrains' = nDrains + 1
  /\ pc' = [pc EXCEPT ![Drainer] = "check"]
  /\ attempts' = <<>>
  /\ startPending' = <<>>
  /\ cur' = NoItem
  /\ result' = "none"
  /\ UNCHANGED <<payments, lock, waiters, args, unlocked, use_stake_txns,
                 running, regLog, removed, regSinceRelease, nRegs>>

\* payments.py 22-27: raise when the account is locked, else reach
\* "async with self.lock"
CheckUnlocked ==
  /\ running
  /\ UNCHANGED <<hvars, owed>>
  /\ pc[Drainer] = "check"
  /\ IF IsAccountUnlocked
     THEN IF LockFree
          THEN /\ lock' = Drainer
               /\ pc' = [pc EXCEPT ![Drainer] = "loop"]
               /\ startPending' = payments
               /\ UNCHANGED <<waiters, result>>
          ELSE /\ waiters' = Append(waiters, Drainer)
               /\ pc' = [pc EXCEPT ![Drainer] = "waiting"]
               /\ UNCHANGED <<lock, startPending, result>>
     ELSE /\ pc' = [pc EXCEPT ![Drainer] = "raised"]
          /\ result' = "Unauthorized"
          /\ UNCHANGED <<lock, waiters, startPending>>
  /\ UNCHANGED <<payments, args, unlocked, use_stake_txns, cur, attempts,
                 running, regLog, removed, regSinceRelease, nRegs, nDrains>>

\* regLog without the registrations of one address
DropAddress(log, address) ==
  SelectSeq(log, LAMBDA e : e.address # address)

\* payments.py 29-40: one more entry: popitem, then await the transfer call
DrainPop ==
  /\ running
  /\ UNCHANGED hvars
  /\ pc[Drainer] = "loop"
  /\ LoopCond(payments)
  /\ Len(payments) > 0   \* popitem() of an empty dict would raise KeyError
  /\ cur' = PopItem(payments)
  /\ payments' = PopRest(payments)
  /\ attempts' = Append(attempts,
                   [sender |-> Sender,
                    recipient |-> PopItem(payments).address,
                    amount |-> PopItem(payments).amount,
                    kind |-> TransferKind,
                    fee |-> 0,
                    outcome |-> "pending"])
  /\ regLog' = DropAddress(regLog, PopItem(payments).address)
  /\ removed' = removed \cup {PopItem(payments).address}
  /\ owed' = [owed EXCEPT ![PopItem(payments).address] =
                                              @ - PopItem(payments).amount]
  /\ pc' = [pc EXCEPT ![Drainer] = "send"]
  /\ UNCHANGED <<lock, waiters, args, unlocked, use_stake_txns, startPending,
                 result, running, regSinceRelease, nRegs, nDrains>>

\* payments.py 34-40: the transfer call returns
TransferReturn ==
  /\ running
  /\ UNCHANGED <<hvars, owed>>
  /\ pc[Drainer] = "send"
  /\ attempts' = [attempts EXCEPT ![Len(attempts)].outcome = "ok"]
  /\ pc' = [pc EXCEPT ![Drainer] = "loop"]
  /\ UNCHANGED <<payments, lock, waiters, args, unlocked, use_stake_txns, cur,
                 startPending, result, running, regLog, removed,
                 regSinceRelease, nRegs, nDrains>>

\* payments.py 34-40: the transfer call raises; nothing catches it, so the
\* "async with" block is left (the lock is released) and the error leaves
\* process_payments
TransferRaise ==
  /\ running
  /\ UNCHANGED <<hvars, owed>>
  /\ pc[Drainer] = "send"
  /\ attempts' = [attempts EXCEPT ![Len(attempts)].outcome = "raise"]
  /\ lock' = NoTask
  /\ pc' = [pc EXCEPT ![Drainer] = "raised"]
  /\ result' = "TransferError"
  /\ regSinceRelease' = FALSE
  /\ UNCHANGED <<payments, waiters, args, unlocked, use_stake_txns, cur,
                 startPending, running, regLog, removed, nRegs, nDrains>>

\* payments.py 29: the loop ends, the lock is released, the call returns
DrainExit ==
  /\ running
  /\ UNCHANGED <<hvars, owed>>
  /\ pc[Drainer] = "loop"
  /\ ~LoopCond(payments)
  /\ lock' = NoTask
  /\ pc' = [pc EXCEPT ![Drainer] = "idle"]
  /\ result' = "returned"
  /\ regSinceRelease' = FALSE
  /\ UNCHANGED <<payments, waiters, args, unlocked, use_stake_txns, cur,
                 attempts, startPending, running, regLog, removed, nRegs,
                 nDrains>>

\* a caller of process_payments that handles the error and goes on
CallerCatch ==
  /\ running
  /\ UNCHANGED <<hvars, owed>>
  /\ pc[Drainer] = "raised"
  /\ pc' = [pc EXCEPT ![Drainer] = "idle"]
  /\ UNCHANGED <<payments, lock, waiters, args, unlocked, use_stake_txns, cur,
                 attempts, startPending, result, running, regLog, removed,
                 regSinceRelease, nRegs, nDrains>>

\* pool-payouts.py 101-104: nothing in run_client catches the error, so it
\* leaves the loop, run_client and run_until_complete: the process ends
DriverCrash ==
  /\ running
  /\ UNCHANGED <<hvars, owed>>
  /\ pc[Drainer] = "raised"
  /\ pc' = [pc EXCEPT ![Drainer] = "crashed"]
  /\ running' = FALSE
  /\ UNCHANGED <<payments, lock, waiters, args, unlocked, use_stake_txns, cur,
                 attempts, startPending, result, regLog, removed,
                 regSinceRelease, nRegs, nDrains>>

\* the node's account is locked or unlocked behind the client; the program
\* reads that state only at payments.py 22, so a change is taken while the
\* call awaits the answer
ToggleAccount ==
  /\ running
  /\ UNCHANGED <<hvars, owed>>
  /\ pc[Drainer] = "check"
  /\ unlocked' = ~unlocked
  /\ UNCHANGED <<payments, lock, waiters, pc, args, use_stake_txns, cur,
                 attempts, startPending, result, running, regLog, removed,
                 regSinceRelease, nRegs, nDrains>>


\* --------------------------------------------------------- process_logs
\* the task that runs process_logs and awaits its register_payment calls
HandlerTask == "r1"

\* what the node can deliver: logs, their inherents, and staker lists
RewardValues == {2, 4}
Reward(value) == [type |-> "payout-reward", value |-> value]
Other == [type |-> "other", value |-> 4]
Logs ==
  {[type |-> "other", inherentLogs |-> <<Reward(4)>>],
   [type |-> "applied-block", inherentLogs |-> <<>>],
   [type |-> "applied-block", inherentLogs |-> <<Other>>],
   [type |-> "applied-block", inherentLogs |-> <<Reward(4)>>],
   [type |-> "applied-block",
    inherentLogs |-> <<Reward(4), Other, Reward(2)>>]}
Staker(address, balance) == [address |-> address, balance |-> balance]
\* answers of get_stakers_by_validator_address
StakerLists ==
  {<<>>,
   <<Staker("A", 0), Staker("B", 0)>>,
   <<Staker("A", 1), Staker(Sender, 1)>>,
   <<Staker("A", 0), Staker("B", 2)>>,
   <<Staker("B", 1), Staker("A", 1)>>}
\* pool fees given on the command line, a float in [0, 1]
Fees == {[n |-> 0, d |-> 1], [n |-> 1, d |-> 4], [n |-> 1, d |-> 1]}

RECURSIVE TotalStaked(_)
\* pool-payouts.py 37, 41-42: the sum of the stakers' balances
TotalStaked(list) ==
  IF list = <<>> THEN 0 ELSE Head(list).balance + TotalStaked(Tail(list))

\* kwargs['pool_fee']: the float nearest to the fraction n/d
PoolFeeFloat(fee) == FDivSmall(fee.n, fee.d)

\* pool-payouts.py 44-46: int(float(balance) / float(total) * float(value)
\* * (1.0 - pool_fee)), a Python int
AmountToSend(balance, total, value, fee) ==
  FTrunc(FMul(FMul(FDivSmall(balance, total), FFromBig(value)),
              FSub(FFromBig(<<1>>), PoolFeeFloat(fee))))

\* pool-payouts.py 48 with the test of the amount left out
SkippedOnlySender(staker, amount) == Sender = staker.address

\* pool-payouts.py 48: the staker is passed over
Skipped(staker, amount) == amount = <<>> \/ Sender = staker.address

\* pool-payouts.py 44-45 with a division that never raises
DivisionNeverRaises(list) == FALSE

\* pool-payouts.py 44-45: float(balance) / float(0) raises
\* ZeroDivisionError
DivisionRaises(list) == TotalStaked(list) = 0

\* pool-payouts.py 41-46: the amounts the loop over the stakers computes,
\* one per staker; no amount comes out of a division by a zero total
RoundAmounts(list, value, fee) ==
  IF TotalStaked(list) = 0 THEN [k \in 1..Len(list) |-> <<>>]
  ELSE [k \in 1..Len(list) |->
          AmountToSend(list[k].balance, TotalStaked(list), value, fee)]

\* RoundAmounts on the inputs the node and the command line can deliver
RoundTable ==
  [fee \in Fees, list \in StakerLists, value \in RewardValues |->
     RoundAmounts(list, BigFromInt(value), fee)]

\* pool-payouts.py 43-49: the first staker from position i on that is not
\* passed over, or 0
NextPayable(hh) ==
  LET js == {j \in hh.i..Len(hh.stakers) :
               ~Skipped(hh.stakers[j], hh.amounts[j])}
  IN IF js = {} THEN 0 ELSE CHOOSE j \in js : \A k \in js : j <= k

\* pool-payouts.py 29-31 with the test of the inherent's type left out
DropNone(list) == list

RECURSIVE DropOthers(_)
\* pool-payouts.py 29-31: inherents of another type are passed over
DropOthers(list) ==
  IF list = <<>> THEN list
  ELSE IF Head(list).type # "payout-reward" THEN DropOthers(Tail(list))
       ELSE list

\* the payout-reward inherents of a log
CountRewards(list) ==
  Cardinality({k \in 1..Len(list) : list[k].type = "payout-reward"})

\* pool-payouts.py 29-36: run the loop over the inherents up to the next
\* payout-reward inherent (the handler then awaits the node's stakers) or
\* to its end (the handler returns); stakers stays bound to the list of
\* the round that ended
AdvanceInherents(hh) ==
  LET rest == DropOthers(hh.inherents)
  IN IF rest = <<>>
     THEN [hh EXCEPT !.pc = "done", !.inherents = <<>>,
                     !.amounts = <<>>, !.value = 0, !.i = 0]
     ELSE [hh EXCEPT !.pc = "fetch", !.inherents = Tail(rest),
                     !.value = Head(rest).value, !.rounds = @ + 1,
                     !.amounts = <<>>, !.i = 0]

ledgerVars == <<payments, lock, waiters, pc, args, unlocked, use_stake_txns,
                cur, attempts, startPending, result, running, regLog, removed,
                regSinceRelease, nRegs, nDrains, owed>>

\* pool-payouts.py 21-36: a log arrives and process_logs runs to its first
\* await, or returns
HandlerStart(log) ==
  /\ running
  /\ h.pc \in {"idle", "done", "raised"}
  /\ nLogs < MaxLogs
  /\ nLogs' = nLogs + 1
  /\ h' = IF log.type # "applied-block"
          THEN [HandlerIdle EXCEPT
                  !.pc = "done", !.type = log.type,
                  !.expected = CountRewards(log.inherentLogs)]
          ELSE AdvanceInherents(
                 [HandlerIdle EXCEPT
                    !.type = log.type,
                    !.expected = CountRewards(log.inherentLogs),
                    !.inherents = log.inherentLogs])
  /\ UNCHANGED <<ledgerVars, pool_fee, shares>>

\* pool-payouts.py 41-53: the loop over the stakers runs from position
\* hh.i to its next await (a register_payment call), to the division by a
\* zero total (ZeroDivisionError), or to its end (back to the inherents)
StakersStep(hh) ==
  IF hh.i <= Len(hh.stakers) /\ DivisionRaises(hh.stakers)
  THEN /\ h' = [hh EXCEPT !.pc = "raised"]
       /\ UNCHANGED ledgerVars
  ELSE IF NextPayable(hh) = 0
  THEN /\ h' = AdvanceInherents([hh EXCEPT !.i = Len(hh.stakers) + 1])
       /\ UNCHANGED ledgerVars
  ELSE LET j == NextPayable(hh)
       IN /\ h' = [hh EXCEPT !.pc = "awaiting", !.i = j, !.regs = @ + 1]
          /\ RegisterCall(HandlerTask, hh.stakers[j].address,
                          BigToInt(hh.amounts[j]))

\* pool-payouts.py 34-36: the node answers with the validator's stakers
HandlerFetch(list) ==
  /\ running
  /\ h.pc = "fetch"
  /\ StakersStep([h EXCEPT
                    !.stakers = list, !.i = 1,
                    !.amounts = RoundTable[pool_fee, list, h.value]])
  /\ UNCHANGED <<pool_fee, nLogs, shares>>

\* pool-payouts.py 53: the awaited register_payment call has returned
HandlerResume ==
  /\ running
  /\ h.pc = "awaiting"
  /\ pc[HandlerTask] = "idle"
  /\ StakersStep([h EXCEPT !.i = @ + 1])
  /\ UNCHANGED <<pool_fee, nLogs, shares>>

\* -------------------------------------------------------- specifications
Register ==
  \/ \E t \in RegTasks, address \in Addresses, amount \in Amounts :
       RegisterCall(t, address, amount) /\ UNCHANGED hvars
  \/ \E t \in RegTasks : RegisterBody(t)

Wake == \E t \in Tasks : LockWake(t)

Drain ==
  \/ ProcessPaymentsCall
  \/ CheckUnlocked
  \/ DrainPop
  \/ TransferReturn
  \/ TransferRaise
  \/ DrainExit

\* the Payments object used by callers that survive an error
Next == Register \/ Wake \/ Drain \/ ToggleAccount \/ CallerCatch

Spec == Init /\ [][Next]_vars

\* the Payments object driven by run_client's loop
NextDriver == Register \/ Wake \/ Drain \/ ToggleAccount \/ DriverCrash

SpecDriver == Init /\ [][NextDriver]_vars

\* the reward handler is the only caller of register_payment
InitLogs ==
  /\ InitLedger
  /\ use_stake_txns \in BOOLEAN
  /\ h = HandlerIdle
  /\ pool_fee \in Fees
  /\ nLogs = 0
  /\ shares = NoShares

Handler ==
  \/ \E log \in Logs : HandlerStart(log)
  \/ \E list \in StakerLists : HandlerFetch(list)
  \/ HandlerResume

NextLogs ==
  \/ Handler
  \/ RegisterBody(HandlerTask)
  \/ Wake
  \/ Drain
  \/ CallerCatch

SpecLogs == InitLogs /\ [][NextLogs]_vars

\* asyncio runs every task that is ready, and the ledger client answers
\* every call (the transfer returns or raises)
Fairness ==
  /\ \A t \in RegTasks : WF_vars(RegisterBody(t))
  /\ \A t \in Tasks : WF_vars(LockWake(t))
  /\ WF_vars(CheckUnlocked)
  /\ WF_vars(DrainPop)
  /\ WF_vars(TransferReturn \/ TransferRaise)
  /\ WF_vars(DrainExit)

\* the amounts play no part in the progress of the calls: every
\* registration credits one unit
RegisterUnit ==
  \/ \E t \in RegTasks, address \in Addresses :
       RegisterCall(t, address, 1) /\ UNCHANGED hvars
  \/ \E t \in RegTasks : RegisterBody(t)

NextFair == RegisterUnit \/ Wake \/ Drain \/ ToggleAccount \/ CallerCatch

SpecFair == Init /\ [][NextFair]_vars /\ Fairness

\* ------------------------------------------- the share computation alone
\* the stakers of a validator, one entry per staker address
AllStakerLists ==
  UNION {{l \in [1..k -> [address : StakerAddresses,
                          balance : 0..MaxBalance]] :
            \A i, j \in 1..k : l[i].address = l[j].address => i = j}
         : k \in 0..MaxStakers}

\* inherent.value: Python ints, small and large
ShareValues ==
  {BigFromInt(0), BigFromInt(4), BigFromInt(14),
   BigAdd(BigMul(BigFromInt(73593616), BigFromInt(1000000)),
          BigFromInt(235004))}

\* pool fees given on the command line, a float in [0, 1]
ShareFees == Fees \cup {[n |-> 1, d |-> 1000]}

\* pool-payouts.py 34-39: one round starts with the node's stakers, the
\* inherent's value and the pool fee
InitShares ==
  /\ InitLedger
  /\ use_stake_txns = FALSE
  /\ h = HandlerIdle
  /\ nLogs = 0
  /\ pool_fee \in ShareFees
  /\ shares \in [pc : {"input"}, stakers : AllStakerLists,
                 value : ShareValues, amounts : {<<>>}]

\* pool-payouts.py 41-46: the amounts of one round
ComputeShares ==
  /\ running
  /\ shares.pc = "input"
  /\ shares.stakers = <<>> \/ ~DivisionRaises(shares.stakers)
  /\ shares' = [shares EXCEPT
                  !.pc = "done",
                  !.amounts = RoundAmounts(shares.stakers, shares.value,
                                           pool_fee)]
  /\ UNCHANGED <<ledgerVars, h, pool_fee, nLogs>>

\* pool-payouts.py 44-45: the division by a zero total raises
\* ZeroDivisionError
SharesRaise ==
  /\ running
  /\ shares.pc = "input"
  /\ shares.stakers # <<>>
  /\ DivisionRaises(shares.stakers)
  /\ shares' = [shares EXCEPT !.pc = "raised"]
  /\ UNCHANGED <<ledgerVars, h, pool_fee, nLogs>>

NextShares == ComputeShares \/ SharesRaise

SpecShares == InitShares /\ [][NextShares]_vars

\* ------------------------------------------------- helpers of the claims
RECURSIVE SumFor(_, _)
\* the sum of the amounts a log of registrations holds for one address
SumFor(log, address) ==
  IF log = <<>> THEN 0
  ELSE (IF Head(log).address = address THEN Head(log).amount ELSE 0)
       + SumFor(Tail(log), address)

CountFor(log, address) ==
  Cardinality({i \in 1..Len(log) : log[i].address = address})

RECURSIVE OneCallEach(_, _)
\* the mapping left by ONE register_payment call per address of the log,
\* with the sum of that address's amounts, in order of first registration
OneCallEach(log, acc) ==
  IF log = <<>> THEN acc
  ELSE IF HasKey(acc, Head(log).address)
       THEN OneCallEach(Tail(log), acc)
       ELSE OneCallEach(Tail(log),
              AddPayment(acc, Head(log).address,
                         SumFor(log, Head(log).address)))

AttemptsFor(address) ==
  {i \in 1..Len(attempts) : attempts[i].recipient = address}

DrainHoldsLock == pc[Drainer] \in {"loop", "send"}

RegistrationCompletes(t) == pc[t] = "locked" /\ pc'[t] = "idle"

DrainPops == pc[Drainer] = "loop" /\ pc'[Drainer] = "send"

\* ------------------------------------------------------------------ C1
\* C1 (sum invariant): whenever no call holds the lock, every recipient R
\* is in the mapping exactly when a register_payment(R, a) call has
\* completed since R was last removed, payments[R] is the sum of the
\* amounts of those calls, and the mapping is the one a single call per
\* recipient with that sum would have left.
C1_SumInvariant ==
  lock = NoTask =>
    /\ \A r \in Addresses :
         /\ HasKey(payments, r) <=> CountFor(regLog, r) > 0
         /\ HasKey(payments, r) => Get(payments, r) = SumFor(regLog, r)
    /\ Keys(payments) \subseteq Addresses
    /\ payments = OneCallEach(regLog, <<>>)

\* Register(A, a), Register(B, b), Register(A, a') done: A holds a + a'
C1_Witness ==
  /\ lock = NoTask
  /\ Len(regLog) = 3
  /\ payments = <<[address |-> "A", amount |-> 2],
                  [address |-> "B", amount |-> 1]>>

\* ------------------------------------------------------------------ C2
\* C2 (no double payment): once a process_payments call that acquired the
\* lock has ended, every recipient that was in the mapping when it acquired
\* the lock has exactly one transfer attempt of that call, whatever the
\* outcomes of the transfer calls were.
C2_ExactlyOneAttempt ==
  result \in {"returned", "TransferError"} =>
    \A r \in Keys(startPending) : Cardinality(AttemptsFor(r)) = 1

\* ------------------------------------------------------------------ C3
\* C3 (no cross-drain leakage): between a drain's acquiring and releasing
\* the lock nothing but the drain's own popitem changes the mapping or the
\* set of completed registrations; the amount a drain transfers for R is
\* R's amount when the drain acquired the lock, which is the sum of the
\* registrations for R completed since R was last removed; and the first
\* registration for R after a drain removed R creates an entry holding
\* that registration's amount alone.
C3_NoCrossDrainLeakage ==
  [][ /\ (DrainHoldsLock /\ (payments' # payments \/ regLog' # regLog))
           => (DrainPops /\ payments' = PopRest(payments))
      /\ DrainPops =>
           /\ HasKey(startPending, cur'.address)
           /\ cur'.amount = Get(startPending, cur'.address)
           /\ cur'.amount = SumFor(regLog, cur'.address)
      /\ \A t \in RegTasks :
           (/\ RegistrationCompletes(t)
            /\ args[t].address \in removed
            /\ ~HasKey(payments, args[t].address))
           => /\ HasKey(payments', args[t].address)
              /\ Get(payments', args[t].address) = args[t].amount
    ]_vars

\* a drain paid A the 2 registered before it; the registration for A after
\* it left a fresh entry of 1, not 3
C3_Witness ==
  /\ "A" \in removed
  /\ \E i \in 1..Len(attempts) :
       attempts[i].recipient = "A" /\ attempts[i].amount = 2
  /\ payments = <<[address |-> "A", amount |-> 1]>>
  /\ lock = NoTask

\* ------------------------------------------------------------------ C4
\* C4 (a transfer failure does not stop the drain): a process_payments
\* call in which a transfer call failed has, when it ends, attempted a
\* transfer for every entry that was pending when it acquired the lock.
C4_DrainContinuesAfterFailure ==
  (pc[Drainer] # "send" /\ \E i \in 1..Len(attempts) :
                             attempts[i].outcome = "raise")
    => \A r \in Keys(startPending) : AttemptsFor(r) # {}

\* ------------------------------------------------------------------ C5
\* C5 (failures are collected and surfaced): when a transfer call of a
\* process_payments call has failed, the call returns to its caller and
\* the failed recipient is in the result it returns.
C5_FailureInReturnedResult ==
  \A i \in 1..Len(attempts) :
    (attempts[i].outcome = "raise" /\ pc[Drainer] # "send")
      => /\ result = "returned"
         /\ attempts[i].recipient \in ReturnedFailures

\* ------------------------------------------------------------------ C6
\* C6 (authorization short-circuit): when is_account_unlocked(sender)
\* answers false, the process_payments call ends with an error in that
\* step, without touching the lock, its waiters or the mapping, and the
\* call has issued no transfer; a call that ended Unauthorized never held
\* the lock and issued no transfer.
C6_AuthorizationShortCircuit ==
  [][ /\ (pc[Drainer] = "check" /\ ~unlocked /\ pc'[Drainer] # "check")
           => /\ pc'[Drainer] = "raised"
              /\ result' = "Unauthorized"
              /\ attempts' = <<>>
              /\ payments' = payments
              /\ lock' = lock
              /\ waiters' = waiters
      /\ result' = "Unauthorized"
           => (attempts' = <<>> /\ startPending' = <<>> /\ lock' # Drainer)
    ]_vars

\* the call ended Unauthorized with credits pending, none of them touched
C6_Witness ==
  /\ pc[Drainer] = "raised"
  /\ result = "Unauthorized"
  /\ ~unlocked
  /\ Len(payments) = 2
  /\ attempts = <<>>

\* ------------------------------------------------------------------ C7
\* C7 (an authorization failure is fatal to that drain cycle only): after
\* a process_payments call has failed because the account is locked, the
\* payout loop of run_client is still running.
C7_DriverSurvivesUnauthorized ==
  result = "Unauthorized" => (running /\ pc[Drainer] # "crashed")

\* ------------------------------------------------------------------ C8
\* C8 (at-most-once on failure): while a transfer for R is in flight R is
\* not in the mapping; the step in which the transfer fails leaves the
\* mapping and the completed registrations as they are, so R is absent
\* right after it; the mapping grows (a new entry, or a larger amount) only
\* in a step that completes a registration; and every amount a drain pops
\* is made of registrations completed since R was last removed.
C8_AtMostOnceOnFailure ==
  [][ /\ pc[Drainer] = "send" => ~HasKey(payments, cur.address)
      /\ (pc[Drainer] = "send" /\ pc'[Drainer] = "raised")
           => /\ ~HasKey(payments', cur.address)
              /\ payments' = payments
              /\ regLog' = regLog
              /\ cur' = cur
      /\ (\E r \in Addresses :
            /\ HasKey(payments', r)
            /\ (~HasKey(payments, r) \/ Get(payments', r) > Get(payments, r)))
           => \E t \in RegTasks : RegistrationCompletes(t)
      /\ DrainPops =>
           /\ cur'.amount = SumFor(regLog, cur'.address)
           /\ CountFor(regLog', cur'.address) = 0
    ]_vars

\* the transfer for the popped recipient failed: it is gone from the
\* mapping, and another entry is still pending
C8_Witness ==
  /\ pc[Drainer] = "raised"
  /\ result = "TransferError"
  /\ cur.address \in Addresses
  /\ cur.amount > 0
  /\ ~HasKey(payments, cur.address)
  /\ payments # <<>>

\* ------------------------------------------------------------------ C9
\* C9 (drain exhaustion): when a process_payments call has returned
\* normally and no registration has acquired the lock since the drain
\* released it, the mapping is empty.
C9_DrainExhaustion ==
  (result = "returned" /\ ~regSinceRelease) => payments = <<>>

\* a drain of two entries has returned and nothing was registered since
C9_Witness ==
  /\ result = "returned"
  /\ ~regSinceRelease
  /\ Len(attempts) = 2
  /\ payments = <<>>

\* ----------------------------------------------------------------- C10
\* C10 (the drain holds the lock for its entire duration): at the moment
\* a process_payments call that acquired the lock releases it, the mapping
\* is empty and every entry that was pending has had a transfer attempted.
C10_ReleasedOnlyWhenEmpty ==
  [][ (lock = Drainer /\ lock' # Drainer)
        => /\ payments' = <<>>
           /\ Len(attempts') = Len(startPending)
    ]_vars

\* ----------------------------------------------------------------- C11
\* C11 (every pending entry is eventually attempted): every credit
\* registered by register_payment is eventually part of a transfer
\* attempt; so when the process has ended, no registered credit is left
\* without an attempt.
C11_NoCreditStranded ==
  ~running => \A a \in StakerAddresses : owed[a] = 0

\* ----------------------------------------------------------------- C12
\* C12 (skip rule): the reward handler never calls register_payment with
\* an amount of 0 nor with the sender's address; so, the handler being the
\* only registrant, every pending entry has a positive amount and belongs
\* to another address than the sender, and no drain issues a transfer
\* whose recipient is the sender.
C12_SkipRule ==
  /\ pc[HandlerTask] # "idle"
       => /\ args[HandlerTask].amount > 0
          /\ args[HandlerTask].address # Sender
  /\ \A k \in 1..Len(regLog) :
       regLog[k].amount > 0 /\ regLog[k].address # Sender
  /\ \A k \in 1..Len(payments) :
       payments[k].amount > 0 /\ payments[k].address # Sender
  /\ \A k \in 1..Len(attempts) :
       attempts[k].amount > 0 /\ attempts[k].recipient # Sender

\* the handler passed over a staker with balance 0 and awaits the
\* registration for the next staker, after a drain has issued a transfer
C12_Witness ==
  /\ h.pc = "awaiting"
  /\ h.i = 2
  /\ h.stakers[1].balance = 0
  /\ pc[HandlerTask] # "idle"
  /\ attempts # <<>>

\* ----------------------------------------------------------------- C13
\* C13 (payout mode and transfer arguments): every transfer of a
\* process_payments call is a stake-deposit transfer when use_stake_txns
\* is true and a basic transfer otherwise, is issued with the given
\* sender and fee 0, and the step that issues it takes the last entry out
\* of the mapping and passes exactly that entry's recipient and amount.
C13_TransferArguments ==
  [][ /\ \A k \in 1..Len(attempts') :
           /\ attempts'[k].kind =
                (IF use_stake_txns' THEN "stake" ELSE "basic")
           /\ attempts'[k].sender = Sender
           /\ attempts'[k].fee = 0
      /\ DrainPops =>
           /\ Len(attempts') = Len(attempts) + 1
           /\ SubSeq(attempts', 1, Len(attempts)) = attempts
           /\ attempts'[Len(attempts')].recipient =
                payments[Len(payments)].address
           /\ attempts'[Len(attempts')].amount =
                payments[Len(payments)].amount
           /\ payments' = SubSeq(payments, 1, Len(payments) - 1)
    ]_vars

\* a drain in stake mode has issued two stake-deposit transfers
C13_Witness ==
  /\ use_stake_txns
  /\ Len(attempts) = 2
  /\ attempts[1].kind = "stake"
  /\ attempts[2].kind = "stake"
  /\ attempts[1].recipient # attempts[2].recipient
  /\ attempts[2].amount > 0

\* ----------------------------------------------------------------- C14
\* floor(s / T * V * (1 - f)) in exact arithmetic, for the fee f = n/d
ExactFloor(balance, total, value, fee) ==
  BigDivSmall(BigMulSmall(BigMulSmall(value, balance), fee.d - fee.n),
              total * fee.d).q

\* C14 (share computation): for stakers with a positive total T, the
\* amount registered for a staker that is not passed over is
\* floor(s / T * V * (1 - f)).
C14_ShareIsExactFloor ==
  shares.pc = "done" =>
    \A k \in 1..Len(shares.stakers) :
      ~Skipped(shares.stakers[k], shares.amounts[k]) =>
        BigCmp(shares.amounts[k],
               ExactFloor(shares.stakers[k].balance,
                          TotalStaked(shares.stakers), shares.value,
                          pool_fee)) = 0

\* ----------------------------------------------------------------- C15
\* C15 (progress): with a fair scheduler and transfer calls that all end,
\* every process_payments call terminates (each iteration takes one entry
\* out of the mapping and nothing is added while the drain holds the
\* lock) and every register_payment call waiting for the lock completes;
\* while a transfer call of a drain has not returned, no register_payment
\* call completes.
C15_Progress ==
  /\ [][ /\ DrainPops => Len(payments') = Len(payments) - 1
         /\ (DrainHoldsLock /\ ~DrainPops) => payments' = payments
         /\ pc[Drainer] = "send" =>
              \A t \in RegTasks : ~RegistrationCompletes(t)
       ]_vars
  /\ (pc[Drainer] \in {"check", "waiting", "loop", "send"})
       ~> (pc[Drainer] \in {"idle", "raised"})
  /\ \A t \in RegTasks : (pc[t] = "waiting") ~> (pc[t] = "idle")

\* a registration waits for the lock while a transfer of the drain is in
\* flight and another entry is still pending
C15_Witness ==
  /\ pc[Drainer] = "send"
  /\ \E t \in RegTasks : pc[t] = "waiting"
  /\ payments # <<>>

\* ----------------------------------------------------------------- C16
\* the amount pending for an address, 0 when it has no entry
Pending(address) ==
  IF HasKey(payments, address) THEN Get(payments, address) ELSE 0

\* C16 (conservation of credits): for every recipient R, the sum of the
\* amounts registered for R so far equals the sum of the amounts of the
\* transfer attempts issued for R so far plus the amount pending for R;
\* owed[R] is the first sum less the second.
C16_Conservation ==
  \A a \in StakerAddresses : owed[a] = Pending(a)

\* a drain was aborted by a failing transfer after its attempt for one
\* recipient, and the credit of the other recipient is still pending
C16_Witness ==
  /\ result = "TransferError"
  /\ Len(attempts) = 1
  /\ attempts[1].amount > 0
  /\ \E a \in Addresses : a # attempts[1].recipient /\ owed[a] > 0
  /\ owed[attempts[1].recipient] = 0

\* ----------------------------------------------------------------- C17
\* the drain's call was ended by a failing transfer and no later call of
\* process_payments has started
DrainAborted == result = "TransferError"

\* C17 (an aborted drain leaves a consistent ledger): the step in which a
\* transfer call raises releases the lock and leaves in the mapping the
\* entries not yet popped, with their amounts; after it the drain does not
\* hold the lock, a registration that completes for a recipient still
\* pending adds its amount to the entry, and the next process_payments
\* call that takes the lock takes all pending entries as its work.
C17_AbortedDrainConsistent ==
  [][ /\ (pc[Drainer] = "send" /\ pc'[Drainer] = "raised")
           => /\ lock' = NoTask
              /\ payments' = payments
              /\ payments' = SubSeq(startPending, 1,
                                    Len(startPending) - Len(attempts))
      /\ DrainAborted => lock # Drainer
      /\ \A t \in RegTasks :
           (DrainAborted /\ RegistrationCompletes(t)
              /\ HasKey(payments, args[t].address))
             => /\ Keys(payments') = Keys(payments)
                /\ \A a \in Keys(payments) :
                     Get(payments', a) =
                       Get(payments, a)
                         + (IF a = args[t].address THEN args[t].amount
                            ELSE 0)
      /\ (lock # Drainer /\ lock' = Drainer)
           => /\ startPending' = payments
              /\ payments' = payments
      /\ DrainPops => cur' = payments[Len(payments)]
    ]_vars

\* a transfer failed with another entry still pending, the lock is free,
\* and a registration made after the failure has added to that entry
C17_Witness ==
  /\ DrainAborted
  /\ lock = NoTask
  /\ regSinceRelease
  /\ Len(startPending) = 2
  /\ Len(attempts) = 1
  /\ Len(payments) = 1
  /\ payments[1].address = startPending[1].address
  /\ payments[1].amount > startPending[1].amount

\* ----------------------------------------------------------------- C18
RECURSIVE RegisteredSum(_, _)
\* the sum of the amounts of the stakers that are not passed over
RegisteredSum(list, amounts) ==
  IF list = <<>> THEN <<>>
  ELSE BigAdd(IF Skipped(Head(list), Head(amounts)) THEN <<>>
              ELSE Head(amounts),
              RegisteredSum(Tail(list), Tail(amounts)))

\* C18 (payouts never exceed the reward): for stakers with a positive
\* total, the sum of the amounts registered in one round is at most
\* V * (1 - f) (for the fee f = n/d: d * sum <= V * (d - n)), hence at
\* most V.
C18_SumWithinReward ==
  (shares.pc = "done" /\ shares.stakers # <<>>) =>
    LET sum == BigNorm(RegisteredSum(shares.stakers, shares.amounts))
    IN /\ BigCmp(BigMulSmall(sum, pool_fee.d),
                 BigMulSmall(shares.value, pool_fee.d - pool_fee.n)) <= 0
       /\ BigCmp(sum, shares.value) <= 0

\* ----------------------------------------------------------------- C19
\* the handler gets the stakers of a payout-reward inherent and runs on
FetchStep == h.pc = "fetch" /\ h' # h

\* the step registers nothing and calls nothing
NothingRegistered ==
  /\ payments' = payments
  /\ regLog' = regLog
  /\ nRegs' = nRegs
  /\ h'.regs = h.regs
  /\ pc'[HandlerTask] = "idle"

\* C19 (zero total stake): when the staker list of a payout-reward
\* inherent is non-empty and every balance is 0, the handler fails with a
\* division by zero before any register_payment call and the mapping is
\* as it was; when the list is empty the handler registers nothing and
\* does not fail; the handler fails in no other case.
C19_ZeroTotalStake ==
  [][ FetchStep =>
        /\ (h'.stakers # <<>> /\ \A k \in 1..Len(h'.stakers) :
                                    h'.stakers[k].balance = 0)
             => (h'.pc = "raised" /\ NothingRegistered)
        /\ h'.stakers = <<>>
             => (h'.pc \in {"fetch", "done"} /\ NothingRegistered)
        /\ h'.pc = "raised"
             => (h'.stakers # <<>> /\ TotalStaked(h'.stakers) = 0)
    ]_vars

\* the handler failed on a list of two stakers without stake, in the
\* second round of a log, with a credit of the first round pending
C19_Witness ==
  /\ h.pc = "raised"
  /\ Len(h.stakers) = 2
  /\ h.rounds = 2
  /\ h.regs > 0
  /\ payments # <<>>

\* ----------------------------------------------------------------- C20
\* a log arrives and the handler runs to its first await or to its end
LogStep == h.pc \in {"idle", "done", "raised"} /\ h' # h

\* C20 (only payout-reward events create credits): for a log whose type
\* is not "applied-block", or an applied-block log without payout-reward
\* inherent, the handler returns at once, starts no round, makes no
\* register_payment call and leaves the mapping as it is; for an
\* applied-block log it starts one round per payout-reward inherent, in
\* which the call it awaits registers the computed amount for the staker
\* it has reached; and it calls register_payment only within a round.
C20_OnlyPayoutRewards ==
  [][ /\ (LogStep /\ (h'.type # "applied-block" \/ h'.expected = 0))
           => /\ h'.pc = "done"
              /\ h'.rounds = 0
              /\ h'.regs = 0
              /\ payments' = payments
              /\ pc'[HandlerTask] = "idle"
      /\ LogStep => payments' = payments
      /\ (h.type # "applied-block" \/ h.expected = 0)
           => (h.rounds = 0 /\ h.regs = 0 /\ pc[HandlerTask] = "idle")
      /\ h.type = "applied-block"
           => h.rounds + CountRewards(h.inherents) = h.expected
      /\ (h.pc = "done" /\ h.type = "applied-block")
           => h.rounds = h.expected
      /\ pc[HandlerTask] # "idle"
           => /\ h.pc = "awaiting"
              /\ h.rounds > 0
              /\ args[HandlerTask].address = h.stakers[h.i].address
              /\ args[HandlerTask].amount = BigToInt(h.amounts[h.i])
    ]_vars

\* an applied-block log with two payout-reward inherents and one other
\* inherent has been handled: two rounds, registrations in both
C20_Witness ==
  /\ h.pc = "done"
  /\ h.type = "applied-block"
  /\ h.expected = 2
  /\ h.rounds = 2
  /\ h.regs = 3
  /\ payments # <<>>

====
